---- MODULE Spec2Model ----
(***************************************************************************)
(* The book collection store of CodeCaddy                                  *)
(* (src/src/context/BookCollectionContext.tsx): the reducer state, the     *)
(* four reducer transitions, the asynchronous searchBooks with its         *)
(* fallback, and the derived query helpers of the context value.           *)
(***************************************************************************)
EXTENDS Integers, Sequences, FiniteSets, TLC

\* ------------------------------------------------------------ bounds ----
\* Largest number of operations (calls of the store's mutators, and
\* settlements of searchBooks calls) in one behaviour.
MaxOps == 5

\* ------------------------------------------------------- data shapes ----
\* type BookStatus
BookStatus == {"want-to-read", "currently-reading", "have-read"}

\* An optional field that is absent (status?: BookStatus).
NoStatus == "undefined"

\* What Array.prototype.find returns when nothing matches.
undefined == [undefined |-> TRUE]

\* error: string | null
null == "null"

\* { ...book, status: s }
WithStatus(book, s) == [book EXCEPT !.status = s]

sampleBooks ==
  << [id |-> "1", title |-> "The Great Gatsby",
      authors |-> <<"F. Scott Fitzgerald">>,
      description |-> "A classic American novel",
      publishedDate |-> "1925", pageCount |-> 180,
      imageLinks |-> [thumbnail |->
        "https://via.placeholder.com/128x192/4a90e2/ffffff?text=Book"],
      status |-> NoStatus],
     [id |-> "2", title |-> "To Kill a Mockingbird",
      authors |-> <<"Harper Lee">>,
      description |-> "A story of racial injustice and childhood innocence",
      publishedDate |-> "1960", pageCount |-> 281,
      imageLinks |-> [thumbnail |->
        "https://via.placeholder.com/128x192/7ed321/ffffff?text=Book"],
      status |-> NoStatus] >>

\* Whether the string s contains q verbatim.
Includes(s, q) ==
  \E i \in 1..(Len(s) - Len(q) + 1) : SubSeq(s, i, i + Len(q) - 1) = q

\* ------------------------------------------------------------ inputs ----
\* Records a caller passes to addBook: one whose id is that of a sample
\* book, one with an id of its own; each without a status and with one set.
NewBookBase ==
  { [id |-> "1", title |-> "Dune", authors |-> <<"Frank Herbert">>,
     description |-> "Desert planet", publishedDate |-> "1965",
     pageCount |-> 412, imageLinks |-> [thumbnail |-> "dune.png"],
     status |-> NoStatus],
    [id |-> "3", title |-> "Persuasion", authors |-> <<"Jane Austen">>,
     description |-> "Second chances", publishedDate |-> "1817",
     pageCount |-> 249, imageLinks |-> [thumbnail |-> "persuasion.png"],
     status |-> NoStatus] }

NewBooks == {WithStatus(b, s) : b \in NewBookBase, s \in {NoStatus, "have-read"}}

\* Identifiers passed to removeBook, updateBookStatus and getBookById;
\* "4" is never the id of a record.
BookIds == {"1", "2", "3", "4"}

\* Queries passed to searchBooks.
Queries == {"dune", "emma"}

\* Values Date.now() returns (milliseconds, kept within 32 bits).
Times == {1000, 1001}

\* Items the catalog returns (status unset by the gateway).  The first has
\* the id of a record a caller adds: a search result put into the Collection.
G1 ==
  [id |-> "3", title |-> "Dune Messiah", authors |-> <<"Frank Herbert">>,
   description |-> "Sequel", publishedDate |-> "1969", pageCount |-> 256,
   imageLinks |-> [thumbnail |-> "g1.png"], status |-> NoStatus]

G2 ==
  [id |-> "g2", title |-> "Emma", authors |-> <<"Jane Austen">>,
   description |-> "Novel", publishedDate |-> "1815", pageCount |-> 474,
   imageLinks |-> [thumbnail |-> "g2.png"], status |-> "have-read"]

\* What `await searchGoogleBooks(query)` can produce: a result with an item
\* list, a result without one, or a rejection (network failure, bad
\* response, missing credential).
GatewayResponses ==
  {[kind |-> "ok", items |-> l] : l \in {<< >>, <<G1>>, <<G2, G1>>}}
    \cup {[kind |-> "no-items"]}
    \cup {[kind |-> "reject", error |-> e] :
            e \in {"NetworkFailure", "BadResponse", "MissingCredential"}}

\* What the gateway call can produce under the configuration: without an
\* API key it fails with the missing credential, with one it never does.
GatewayOutcomes(key) ==
  IF key
  THEN GatewayResponses \ {[kind |-> "reject", error |-> "MissingCredential"]}
  ELSE {[kind |-> "reject", error |-> "MissingCredential"]}

\* ------------------------------------------------------------- state ----
VARIABLES
  state,   \* the reducer state (BookCollectionState)
  calls,   \* the searchBooks calls in flight, in start order
  steps,   \* the number of operations performed so far
  apiKey,  \* whether an API key is configured (read once at startup)
  last     \* the operation performed last, with its arguments

vars == <<state, calls, steps, apiKey, last>>

\* Mutant: the sample books are taken as they are, their status unset.
initialState_AsSampled ==
  [books |-> sampleBooks,
   searchResults |-> << >>,
   isLoading |-> FALSE,
   error |-> null,
   currentlyReading |-> << >>,
   wantToRead |-> << >>,
   haveRead |-> << >>]

initialState ==
  [books |-> [i \in 1..Len(sampleBooks) |->
               WithStatus(sampleBooks[i], "want-to-read")],
   searchResults |-> << >>,
   isLoading |-> FALSE,
   error |-> null,
   currentlyReading |-> << >>,
   wantToRead |-> << >>,
   haveRead |-> << >>]

\* ----------------------------------------------------------- reducer ----
\* Mutant: the payload is appended as given, its status not set.
ADD_BOOK_AsGiven(st, payload) ==
  [st EXCEPT !.books = st.books \o << payload >>]

\* Mutant: a record whose identifier is in the Collection replaces the
\* records that have it; only a new identifier is appended.
ADD_BOOK_Upsert(st, payload) ==
  IF \E i \in 1..Len(st.books) : st.books[i].id = payload.id
  THEN [st EXCEPT !.books =
          [i \in 1..Len(st.books) |->
             IF st.books[i].id = payload.id
             THEN WithStatus(payload, "want-to-read") ELSE st.books[i]]]
  ELSE [st EXCEPT !.books = st.books \o << WithStatus(payload, "want-to-read") >>]

\* Mutant: the new record is put first.
ADD_BOOK_Prepend(st, payload) ==
  [st EXCEPT !.books = << WithStatus(payload, "want-to-read") >> \o st.books]

ADD_BOOK(st, payload) ==
  [st EXCEPT !.books = st.books \o << WithStatus(payload, "want-to-read") >>]

\* Mutant: findIndex and splice; for an identifier that matches nothing
\* the index is -1 and splice(-1, 1) deletes the last record.
REMOVE_BOOK_Splice(st, payload) ==
  LET hits == {i \in 1..Len(st.books) : st.books[i].id = payload}
      at == IF hits = {} THEN Len(st.books)
            ELSE CHOOSE i \in hits : \A j \in hits : i <= j
  IN  [st EXCEPT !.books =
         SubSeq(st.books, 1, at - 1) \o SubSeq(st.books, at + 1, Len(st.books))]

\* Mutant: the identifier is filtered out of the search results as well.
REMOVE_BOOK_Everywhere(st, payload) ==
  [st EXCEPT !.books = SelectSeq(st.books, LAMBDA book : book.id # payload),
             !.searchResults =
                SelectSeq(st.searchResults, LAMBDA book : book.id # payload)]

\* Mutant: only the first record with the identifier is deleted.
REMOVE_BOOK_FirstOnly(st, payload) ==
  LET hits == {i \in 1..Len(st.books) : st.books[i].id = payload}
      first == CHOOSE i \in hits : \A j \in hits : i <= j
  IN  IF hits = {} THEN st
      ELSE [st EXCEPT !.books =
              SubSeq(st.books, 1, first - 1)
                \o SubSeq(st.books, first + 1, Len(st.books))]

REMOVE_BOOK(st, payload) ==
  [st EXCEPT !.books = SelectSeq(st.books, LAMBDA book : book.id # payload)]

\* Mutant: only the first record with the identifier is updated.
UPDATE_BOOK_STATUS_FirstOnly(st, payload) ==
  LET hits == {i \in 1..Len(st.books) : st.books[i].id = payload.id}
  IN  [st EXCEPT !.books =
         [i \in 1..Len(st.books) |->
            IF i \in hits /\ (\A j \in hits : i <= j)
            THEN WithStatus(st.books[i], payload.status)
            ELSE st.books[i]]]

\* Mutant: the status is toggled, a record that already has it going back
\* to want-to-read.
UPDATE_BOOK_STATUS_Toggle(st, payload) ==
  [st EXCEPT !.books =
     [i \in 1..Len(st.books) |->
        IF st.books[i].id = payload.id
        THEN WithStatus(st.books[i],
                        IF st.books[i].status = payload.status
                        THEN "want-to-read" ELSE payload.status)
        ELSE st.books[i]]]

UPDATE_BOOK_STATUS(st, payload) ==
  [st EXCEPT !.books =
     [i \in 1..Len(st.books) |->
        IF st.books[i].id = payload.id
        THEN WithStatus(st.books[i], payload.status)
        ELSE st.books[i]]]

\* Mutant: the results are put into the Collection as well.
SET_SEARCH_RESULTS_IntoBooks(st, payload) ==
  [st EXCEPT !.searchResults = payload, !.books = st.books \o payload]

\* Mutant: the new results are merged into the old ones.
SET_SEARCH_RESULTS_Merge(st, payload) ==
  [st EXCEPT !.searchResults = st.searchResults \o payload]

SET_SEARCH_RESULTS(st, payload) ==
  [st EXCEPT !.searchResults = payload]

bookCollectionReducer(st, action) ==
  CASE action.type = "ADD_BOOK" -> ADD_BOOK(st, action.payload)
    [] action.type = "REMOVE_BOOK" -> REMOVE_BOOK(st, action.payload)
    [] action.type = "UPDATE_BOOK_STATUS" -> UPDATE_BOOK_STATUS(st, action.payload)
    [] action.type = "SET_SEARCH_RESULTS" -> SET_SEARCH_RESULTS(st, action.payload)
    [] OTHER -> st

\* dispatch(action) of useReducer
dispatch(action) == state' = bookCollectionReducer(state, action)

\* ----------------------------------------------------------- helpers ----
\* Mutant: the matching records are collected newest first.
getBooksByStatus_Reversed(st, status) ==
  LET r == SelectSeq(st.books, LAMBDA book : book.status = status)
  IN  [i \in 1..Len(r) |-> r[Len(r) + 1 - i]]

getBooksByStatus(st, status) ==
  SelectSeq(st.books, LAMBDA book : book.status = status)

\* Mutant: an identifier that is not in the Collection is looked up in the
\* search results.
getBookById_Anywhere(st, id) ==
  LET all == st.books \o st.searchResults
      hits == {i \in 1..Len(all) : all[i].id = id}
  IN  IF hits = {} THEN undefined
      ELSE all[CHOOSE i \in hits : \A j \in hits : i <= j]

\* find: the first record that matches, or undefined.
getBookById(st, id) ==
  LET hits == {i \in 1..Len(st.books) : st.books[i].id = id}
  IN  IF hits = {} THEN undefined
      ELSE st.books[CHOOSE i \in hits : \A j \in hits : i <= j]

\* What BookDetailsPage renders for the route parameter id.
BookDetailsPage(st, id) ==
  LET book == getBookById(st, id)
  IN  IF book = undefined
      THEN [view |-> "Book not found"]
      ELSE [view |-> "BookDetails", book |-> book]

getTotalBooks(st) == Len(st.books)

\* Mutant: every record that is not want-to-read counts as completed.
getReadingProgress_Started(st) ==
  [completed |-> Len(SelectSeq(st.books, LAMBDA book : book.status # "want-to-read")),
   total |-> Len(st.books)]

getReadingProgress(st) ==
  [completed |-> Len(SelectSeq(st.books, LAMBDA book : book.status = "have-read")),
   total |-> Len(st.books)]

\* ------------------------------------------------------- searchBooks ----
\* Mutant: the title of the mock result leaves the query out.
mockResults_NoQuery(query, now) ==
  << [id |-> "search-" \o ToString(now),
      title |-> "Search Result",
      authors |-> <<"Sample Author">>,
      description |-> "This is a mock search result (API may be unavailable)",
      publishedDate |-> "2023", pageCount |-> 200,
      imageLinks |-> [thumbnail |->
        "https://via.placeholder.com/128x192/ff6b6b/ffffff?text=Search"],
      status |-> "want-to-read"] >>

\* The catch branch: the one-record mock result.
mockResults(query, now) ==
  << [id |-> "search-" \o ToString(now),
      title |-> "Search Result: " \o query,
      authors |-> <<"Sample Author">>,
      description |-> "This is a mock search result (API may be unavailable)",
      publishedDate |-> "2023", pageCount |-> 200,
      imageLinks |-> [thumbnail |->
        "https://via.placeholder.com/128x192/ff6b6b/ffffff?text=Search"],
      status |-> "want-to-read"] >>

\* Mutant: an item that comes with a status keeps it.
booksWithStatus_KeepOwn(result) ==
  [i \in 1..Len(result.items) |->
     IF result.items[i].status = NoStatus
     THEN WithStatus(result.items[i], "want-to-read")
     ELSE result.items[i]]

\* result.items.map(...) : the try branch after the await.
booksWithStatus(result) ==
  [i \in 1..Len(result.items) |-> WithStatus(result.items[i], "want-to-read")]

\* Whether the try block runs to its dispatch: the await did not reject and
\* result.items is there to be mapped (otherwise a TypeError is thrown).
TryCompletes(resp) == resp.kind = "ok"

\* ----------------------------------------------------------- actions ----
Init ==
  /\ state = initialState
  /\ calls = << >>
  /\ steps = 0
  /\ apiKey \in BOOLEAN
  /\ last = [op |-> "init"]

\* One more operation, while the behaviour is within its bound.
Step == steps < MaxOps /\ steps' = steps + 1 /\ UNCHANGED apiKey

\* How many Collection records carry the identifier (recorded in `last`).
Matches(bookId) ==
  Cardinality({i \in 1..Len(state.books) : state.books[i].id = bookId})

\* The calls in flight, each noting that the Collection was written while
\* it was in flight (recorded in `last` when the call settles).
Touched == [i \in 1..Len(calls) |-> [calls[i] EXCEPT !.touched = TRUE]]

addBook(book) ==
  /\ Step
  /\ dispatch([type |-> "ADD_BOOK", payload |-> book])
  /\ last' = [op |-> "addBook", book |-> book, matched |-> Matches(book.id)]
  /\ calls' = Touched

removeBook(bookId) ==
  /\ Step
  /\ dispatch([type |-> "REMOVE_BOOK", payload |-> bookId])
  /\ last' = [op |-> "removeBook", id |-> bookId, matched |-> Matches(bookId)]
  /\ calls' = Touched

updateBookStatus(bookId, status) ==
  /\ Step
  /\ dispatch([type |-> "UPDATE_BOOK_STATUS",
               payload |-> [id |-> bookId, status |-> status]])
  /\ last' = [op |-> "updateBookStatus", id |-> bookId, status |-> status,
              matched |-> Matches(bookId),
              again |-> /\ last.op = "updateBookStatus"
                        /\ last.id = bookId
                        /\ last.status = status]
  /\ calls' = Touched

\* Mutant: the clear resets the whole store to its initial state.
clearSearch_Reset ==
  /\ Step
  /\ state' = initialState
  /\ last' = [op |-> "clearSearch", cleared |-> Len(state.searchResults)]
  /\ UNCHANGED calls

\* Mutant: the clear abandons the searchBooks calls in flight.
clearSearch_Cancel ==
  /\ Step
  /\ dispatch([type |-> "SET_SEARCH_RESULTS", payload |-> << >>])
  /\ last' = [op |-> "clearSearch", cleared |-> Len(state.searchResults)]
  /\ calls' = << >>

clearSearch ==
  /\ Step
  /\ dispatch([type |-> "SET_SEARCH_RESULTS", payload |-> << >>])
  /\ last' = [op |-> "clearSearch", cleared |-> Len(state.searchResults)]
  /\ UNCHANGED calls

\* The in-flight calls once the k-th has settled: it leaves the list, and
\* every call still in flight notes that a call started earlier or later
\* than itself has settled meanwhile.
Settle(k) ==
  [i \in 1..(Len(calls) - 1) |->
     IF i < k THEN [calls[i] EXCEPT !.saw = @ \cup {"later"}]
     ELSE [calls[i + 1] EXCEPT !.saw = @ \cup {"earlier"}]]

\* searchBooks(query) up to its await: the gateway call is in flight.
searchBooksStart(query) ==
  /\ Step
  /\ calls' = Append(calls, [query |-> query, saw |-> {}, touched |-> FALSE])
  /\ last' = [op |-> "searchBooksStart", query |-> query]
  /\ UNCHANGED state

\* searchBooks from the fulfilment of its gateway call to the end of the
\* try block.
searchBooksTry(k, result) ==
  /\ Step
  /\ TryCompletes(result)
  /\ dispatch([type |-> "SET_SEARCH_RESULTS", payload |-> booksWithStatus(result)])
  /\ calls' = Settle(k)
  /\ last' = [op |-> "searchBooksTry", query |-> calls[k].query,
              resp |-> result, saw |-> calls[k].saw,
              touched |-> calls[k].touched,
              replaced |-> Len(state.searchResults),
              afterClear |-> last.op = "clearSearch"]

\* Mutant: the catch block handles a rejection only; any other failure of
\* the try block leaves it.
searchBooksCatch_RejectOnly(k, resp, now) ==
  /\ Step
  /\ resp.kind = "reject"
  /\ dispatch([type |-> "SET_SEARCH_RESULTS",
               payload |-> mockResults(calls[k].query, now)])
  /\ calls' = Settle(k)
  /\ last' = [op |-> "searchBooksCatch", query |-> calls[k].query,
              resp |-> resp, saw |-> calls[k].saw,
              touched |-> calls[k].touched,
              replaced |-> Len(state.searchResults),
              afterClear |-> last.op = "clearSearch"]

\* Mutant: the catch block empties the results instead of the mock result.
searchBooksCatch_Empty(k, resp, now) ==
  /\ Step
  /\ ~TryCompletes(resp)
  /\ dispatch([type |-> "SET_SEARCH_RESULTS", payload |-> << >>])
  /\ calls' = Settle(k)
  /\ last' = [op |-> "searchBooksCatch", query |-> calls[k].query,
              resp |-> resp, saw |-> calls[k].saw,
              touched |-> calls[k].touched,
              replaced |-> Len(state.searchResults),
              afterClear |-> last.op = "clearSearch"]

\* Mutant: the catch block records the failure in the error field.
searchBooksCatch_SetError(k, resp, now) ==
  /\ Step
  /\ ~TryCompletes(resp)
  /\ state' = [bookCollectionReducer(state,
                  [type |-> "SET_SEARCH_RESULTS",
                   payload |-> mockResults(calls[k].query, now)])
                EXCEPT !.error = "Search failed"]
  /\ calls' = Settle(k)
  /\ last' = [op |-> "searchBooksCatch", query |-> calls[k].query,
              resp |-> resp, saw |-> calls[k].saw,
              touched |-> calls[k].touched,
              replaced |-> Len(state.searchResults),
              afterClear |-> last.op = "clearSearch"]

\* searchBooks from the failure of its try block (the gateway call
\* rejected, or result.items cannot be mapped) to the end of the catch block.
searchBooksCatch(k, resp, now) ==
  /\ Step
  /\ ~TryCompletes(resp)
  /\ dispatch([type |-> "SET_SEARCH_RESULTS",
               payload |-> mockResults(calls[k].query, now)])
  /\ calls' = Settle(k)
  /\ last' = [op |-> "searchBooksCatch", query |-> calls[k].query,
              resp |-> resp, saw |-> calls[k].saw,
              touched |-> calls[k].touched,
              replaced |-> Len(state.searchResults),
              afterClear |-> last.op = "clearSearch"]

Next ==
  \/ \E book \in NewBooks : addBook(book)
  \/ \E bookId \in BookIds : removeBook(bookId)
  \/ \E bookId \in BookIds, status \in BookStatus : updateBookStatus(bookId, status)
  \/ clearSearch
  \/ \E query \in Queries : searchBooksStart(query)
  \/ \E k \in 1..Len(calls), result \in GatewayOutcomes(apiKey) :
       searchBooksTry(k, result)
  \/ \E k \in 1..Len(calls), resp \in GatewayOutcomes(apiKey), now \in Times :
       searchBooksCatch(k, resp, now)

Spec == Init /\ [][Next]_vars

\* ------------------------------------------------- the add/add/update ----
\* scenario of the specification's testable properties, run on the store
\* as BookCollectionProvider creates it: add A (id "1"), add B (id "2"),
\* updateBookStatus("2", "have-read").  `last` keeps A and B.
ScenarioBooks(id) ==
  {[id |-> id, title |-> t, authors |-> <<"Author">>, description |-> "",
    publishedDate |-> "2001", pageCount |-> 100,
    imageLinks |-> [thumbnail |-> "cover.png"], status |-> s] :
     t \in {"Dune", "Emma", "To Kill a Mockingbird"},
     s \in BookStatus \cup {NoStatus}}

ScenarioInit ==
  /\ state = initialState
  /\ calls = << >>
  /\ steps = 0
  /\ apiKey \in BOOLEAN
  /\ last = [op |-> "scenario", added |-> << >>]

scenarioAdd(book) ==
  /\ steps < 2
  /\ book.id = (IF steps = 0 THEN "1" ELSE "2")
  /\ steps' = steps + 1
  /\ UNCHANGED apiKey
  /\ dispatch([type |-> "ADD_BOOK", payload |-> book])
  /\ last' = [last EXCEPT !.added = Append(@, book)]
  /\ UNCHANGED calls

scenarioUpdate ==
  /\ steps = 2
  /\ steps' = 3
  /\ UNCHANGED apiKey
  /\ dispatch([type |-> "UPDATE_BOOK_STATUS",
               payload |-> [id |-> "2", status |-> "have-read"]])
  /\ UNCHANGED <<calls, last>>

ScenarioNext ==
  \/ \E book \in ScenarioBooks("1") \cup ScenarioBooks("2") : scenarioAdd(book)
  \/ scenarioUpdate

ScenarioSpec == ScenarioInit /\ [][ScenarioNext]_vars

\* =========================================================== claims ====
\* The Collection and the SearchResultSet of the current state.
books == state.books
searchResults == state.searchResults

\* C1: after add(r), getById(r.identifier) returns r with its status set to
\* want-to-read, also when a record with r's identifier was already in the
\* Collection.  (Fails on the code: find returns the older record.)
C1_AddThenGetById ==
  last.op = "addBook" =>
    getBookById(state, last.book.id) = WithStatus(last.book, "want-to-read")

\* C2: no two records of the Collection have the same identifier.  (Fails
\* on the code: ADD_BOOK appends without looking for the identifier.)
C2_UniqueIdentifiers ==
  \A i, j \in 1..Len(books) : i # j => books[i].id # books[j].id

\* C3: on a freshly created store, after add A (id "1"), add B (id "2") and
\* updateStatus("2", have-read), getReadingProgress() is (1, 2) and
\* getByStatus(have-read) is [B].  (Fails on the code: the fresh store
\* already holds records "1" and "2", and the adds duplicate them.)
C3_Scenario ==
  (last.op = "scenario" /\ steps = 3) =>
    /\ getReadingProgress(state) = [completed |-> 1, total |-> 2]
    /\ getBooksByStatus(state, "have-read")
         = << WithStatus(last.added[2], "have-read") >>


\* C4: after remove(id), getById(id) returns not found, for an id present
\* once, several times or never.
C4_RemoveThenNotFound ==
  last.op = "removeBook" => getBookById(state, last.id) = undefined

\* A remove has just deleted several records that shared the identifier.
C4_Witness ==
  /\ last.op = "removeBook"
  /\ last.matched >= 2
  /\ books # << >>

\* The positions of the Collection records whose status is s.
StatusPositions(s) == {i \in 1..Len(books) : books[i].status = s}

\* C5: getReadingProgress() is (number of have-read records, Collection
\* length), its total is getTotalCount(), and completed <= total.
C5_ReadingProgress ==
  LET p == getReadingProgress(state)
  IN  /\ p.completed = Cardinality(StatusPositions("have-read"))
      /\ p.total = Len(books)
      /\ p.total = getTotalBooks(state)
      /\ p.completed <= p.total

\* After adds, removes and updates: some but not all records are have-read.
C5_Witness ==
  /\ steps >= 3
  /\ last.op \in {"addBook", "removeBook", "updateBookStatus"}
  /\ getReadingProgress(state).completed >= 1
  /\ getReadingProgress(state).completed < getReadingProgress(state).total

\* C6: getByStatus(s) is exactly the subsequence of the Collection with
\* status s: the record at the k-th position with status s is the k-th
\* element of the result, and the result has no other element.
C6_ByStatusSubsequence ==
  \A s \in BookStatus :
    LET r == getBooksByStatus(state, s)
        pos == StatusPositions(s)
    IN  /\ Len(r) = Cardinality(pos)
        /\ \A i \in pos : r[Cardinality({j \in pos : j <= i})] = books[i]

\* Two records of one status with a record of another status between them.
C6_Witness ==
  \E i, j, k \in 1..Len(books) :
    /\ i < j /\ j < k
    /\ books[i].status = books[k].status
    /\ books[j].status # books[i].status
    /\ books[i] # books[k]

\* C7: a search whose gateway call fails (rejection of any kind, or a
\* result without an item list) writes exactly one record, whose title
\* contains the query verbatim.
C7_FallbackOnFailure ==
  (last.op \in {"searchBooksTry", "searchBooksCatch"} /\ last.resp.kind # "ok") =>
    /\ Len(searchResults) = 1
    /\ Includes(searchResults[1].title, last.query)

\* A search has just ended in the fallback, for a result without items.
C7_Witness ==
  /\ last.op = "searchBooksCatch"
  /\ last.resp.kind = "no-items"
  /\ last.query = "emma"

\* What a settled search call is to leave in the SearchResultSet.
IsOutcome(sr, query, resp) ==
  IF resp.kind = "ok"
  THEN /\ Len(sr) = Len(resp.items)
       /\ \A i \in 1..Len(sr) :
            sr[i] = [resp.items[i] EXCEPT !.status = "want-to-read"]
  ELSE /\ Len(sr) = 1
       /\ sr[1].title = "Search Result: " \o query
       /\ \E now \in Times : sr[1].id = "search-" \o ToString(now)

\* A call in flight leaves the list only by settling itself.
NoCancellation ==
  \/ /\ Len(calls') = Len(calls)
     /\ \A i \in 1..Len(calls) :
          calls'[i].query = calls[i].query /\ calls'[i].saw = calls[i].saw
  \/ \E call \in [query : Queries, saw : {{}}, touched : {FALSE}] :
       calls' = Append(calls, call)
  \/ /\ last'.op \in {"searchBooksTry", "searchBooksCatch"}
     /\ Len(calls') = Len(calls) - 1
     /\ \E k \in 1..Len(calls) : calls[k].query = last'.query

\* C8: when overlapping search calls settle, the SearchResultSet is the
\* outcome of the call that settled last, whatever the start order, and no
\* call in flight is cancelled.
C8_LastSettledWins ==
  /\ []((last.op \in {"searchBooksTry", "searchBooksCatch"} /\ last.saw # {})
          => IsOutcome(searchResults, last.query, last.resp))
  /\ [][NoCancellation]_vars

\* Two overlapping calls have both settled, the one started first last, and
\* the two outcomes differ in length.
C8_Witness ==
  /\ last.op = "searchBooksCatch"
  /\ last.saw = {"later"}
  /\ calls = << >>
  /\ Len(searchResults) = 1

\* C9: clearSearch() yields an empty SearchResultSet and leaves the
\* Collection unchanged.
C9_ClearSearch ==
  [][(last'.op = "clearSearch" /\ steps' = steps + 1) =>
       /\ state'.searchResults = << >>
       /\ state'.books = state.books]_vars

\* A clear has just emptied a SearchResultSet that held records, a search
\* being in flight.
C9_Witness ==
  /\ last.op = "clearSearch"
  /\ last.cleared >= 1
  /\ calls # << >>
  /\ searchResults = << >>

\* C10: updateStatus(id, s) applied twice in a row yields the same
\* Collection and SearchResultSet as applied once.
C10_UpdateIdempotent ==
  [][(last.op = "updateBookStatus" /\ last'.op = "updateBookStatus"
       /\ last'.again /\ steps' = steps + 1) => state' = state]_vars

\* The same update has just been applied a second time to a record whose
\* status the first application changed.
C10_Witness ==
  /\ last.op = "updateBookStatus"
  /\ last.again
  /\ last.matched >= 1
  /\ last.status # "want-to-read"

\* An operation has just been performed (the step is no stuttering step).
Performed == steps' = steps + 1

SearchOps == {"searchBooksStart", "searchBooksTry", "searchBooksCatch"}
SettleOps == {"searchBooksTry", "searchBooksCatch"}

\* C11: every record of the Collection carries exactly one status, one of
\* want-to-read, currently-reading, have-read.
C11_StatusAlwaysSet ==
  \A i \in 1..Len(books) : books[i].status \in BookStatus

\* A record passed without a status has just been added, beside a record
\* whose status an update has set.
C11_Witness ==
  /\ last.op = "addBook"
  /\ last.book.status = NoStatus
  /\ \E i \in 1..Len(books) : books[i].status = "currently-reading"

\* C12: remove(id) and updateStatus(id, s) with an identifier that matches
\* no Collection record leave the state as it is.
C12_UnknownIdNoOp ==
  [][(Performed /\ last'.op \in {"removeBook", "updateBookStatus"}
        /\ last'.matched = 0) => state' = state]_vars

\* A remove of an unknown identifier, with records in the Collection and in
\* the SearchResultSet.
C12_Witness ==
  /\ last.op = "removeBook"
  /\ last.matched = 0
  /\ books # << >>
  /\ searchResults # << >>

\* C13: the membership of the Collection changes only through add and
\* remove: the start and the settling of a search and clearSearch leave the
\* Collection as it is, and updateStatus leaves its identifiers as they are.
C13_MembershipOnlyByAddRemove ==
  [][Performed =>
       /\ last'.op \in SearchOps \cup {"clearSearch"} => state'.books = state.books
       /\ last'.op = "updateBookStatus" =>
            /\ Len(state'.books) = Len(state.books)
            /\ \A i \in 1..Len(state.books) :
                 state'.books[i].id = state.books[i].id]_vars

\* A search has settled with results after the Collection was written
\* while it was in flight, and the Collection holds what was written.
C13_Witness ==
  /\ last.op = "searchBooksTry"
  /\ last.touched
  /\ Len(searchResults) >= 1
  /\ Len(books) = 3

\* Where the record at position i of the Collection is after the step (0:
\* it was removed).
KeptPos(i) ==
  IF last'.op = "removeBook"
  THEN IF state.books[i].id = last'.id THEN 0
       ELSE Cardinality({j \in 1..i : state.books[j].id # last'.id})
  ELSE i

\* C14: the status of a record in the Collection changes only through an
\* updateStatus that names its identifier.
C14_StatusOnlyByUpdate ==
  [][Performed =>
       \A i \in 1..Len(state.books) :
         (/\ KeptPos(i) # 0
          /\ ~(last'.op = "updateBookStatus" /\ last'.id = state.books[i].id))
         => /\ KeptPos(i) <= Len(state'.books)
            /\ state'.books[KeptPos(i)].id = state.books[i].id
            /\ state'.books[KeptPos(i)].status = state.books[i].status]_vars

\* A record has just been added whose identifier a have-read record of the
\* Collection has.
C14_Witness ==
  /\ last.op = "addBook"
  /\ \E i \in 1..(Len(books) - 1) :
       books[i].id = last.book.id /\ books[i].status = "have-read"

\* C15: a search call whose gateway call has settled, in whatever way, runs
\* to its end: it leaves the calls in flight (no retry) with one write of
\* the SearchResultSet, and starting a call writes nothing.
C15_SearchAlwaysFinishes ==
  /\ [](\A k \in 1..Len(calls), resp \in GatewayOutcomes(apiKey) :
          steps < MaxOps =>
            ENABLED (\/ searchBooksTry(k, resp)
                     \/ \E now \in Times : searchBooksCatch(k, resp, now)))
  /\ [][Performed =>
          /\ last'.op = "searchBooksStart" =>
               state' = state /\ Len(calls') = Len(calls) + 1
          /\ last'.op \in SettleOps =>
               /\ Len(calls') = Len(calls) - 1
               /\ IsOutcome(state'.searchResults, last'.query, last'.resp)]_vars

\* A call whose gateway call was rejected has ended, none being in flight.
C15_Witness ==
  /\ last.op = "searchBooksCatch"
  /\ last.resp = [kind |-> "reject", error |-> "BadResponse"]
  /\ calls = << >>

C17_AddAppends ==
  [][(Performed /\ last'.op = "addBook") =>
       /\ Len(state'.books) = Len(state.books) + 1
       /\ SubSeq(state'.books, 1, Len(state.books)) = state.books
       /\ state'.books[Len(state'.books)]
            = [last'.book EXCEPT !.status = "want-to-read"]
       /\ state'.searchResults = state.searchResults]_vars

\* A record passed as have-read has just been added after others, the
\* SearchResultSet holding records.
C17_Witness ==
  /\ last.op = "addBook"
  /\ last.book.status = "have-read"
  /\ Len(books) >= 3
  /\ searchResults # << >>

\* C18: a search whose gateway call succeeds replaces the SearchResultSet
\* by the items of the result, in their order, each with status
\* want-to-read.
C18_SuccessReplaces ==
  last.op = "searchBooksTry" =>
    /\ Len(searchResults) = Len(last.resp.items)
    /\ \A i \in 1..Len(searchResults) :
         searchResults[i] = [last.resp.items[i] EXCEPT !.status = "want-to-read"]

\* A search has just replaced a non-empty SearchResultSet by two items, one
\* of which came with a status.
C18_Witness ==
  /\ last.op = "searchBooksTry"
  /\ last.replaced >= 1
  /\ last.resp.items = <<G2, G1>>

\* C19: updateStatus(id, s) sets the status of every record with
\* identifier id to s and changes nothing else.
C19_UpdateFrame ==
  [][(Performed /\ last'.op = "updateBookStatus") =>
       /\ Len(state'.books) = Len(state.books)
       /\ \A i \in 1..Len(state.books) :
            state'.books[i] =
              IF state.books[i].id = last'.id
              THEN [state.books[i] EXCEPT !.status = last'.status]
              ELSE state.books[i]
       /\ state'.searchResults = state.searchResults]_vars

\* An update has just set the status of two records that share the
\* identifier, beside a record with another identifier.
C19_Witness ==
  /\ last.op = "updateBookStatus"
  /\ last.matched >= 2
  /\ last.status = "currently-reading"
  /\ \E i \in 1..Len(books) : books[i].id # last.id

\* C20: remove(id) deletes every record with identifier id and nothing
\* else: the others stay, unchanged and in their order, and the
\* SearchResultSet is unchanged.
C20_RemoveFrame ==
  [][(Performed /\ last'.op = "removeBook") =>
       /\ Len(state'.books)
            = Cardinality({i \in 1..Len(state.books) : state.books[i].id # last'.id})
       /\ \A i \in 1..Len(state.books) :
            state.books[i].id # last'.id => state'.books[KeptPos(i)] = state.books[i]
       /\ state'.searchResults = state.searchResults]_vars

\* A remove has just deleted a record whose identifier a record of the
\* SearchResultSet has, and that record is still there.
C20_Witness ==
  /\ last.op = "removeBook"
  /\ last.matched >= 1
  /\ books # << >>
  /\ \E i \in 1..Len(searchResults) : searchResults[i].id = last.id

\* The identifiers of the records in the SearchResultSet.
SearchResultIds == {searchResults[i].id : i \in 1..Len(searchResults)}

\* The identifiers of the records in the Collection.
CollectionIds == {books[i].id : i \in 1..Len(books)}

\* C21: getById looks in the Collection only.  For an identifier found in
\* the SearchResultSet but in no Collection record it returns not found, and
\* the detail view shows "Book not found"; for an identifier several
\* Collection records share it returns the one inserted earliest (the one
\* at the lowest position, adds appending at the end).
C21_GetByIdCollectionOnly ==
  /\ \A id \in SearchResultIds \ CollectionIds :
       /\ getBookById(state, id) = undefined
       /\ BookDetailsPage(state, id) = [view |-> "Book not found"]
  /\ \A id \in CollectionIds :
       \E i \in 1..Len(books) :
         /\ books[i].id = id
         /\ \A j \in 1..(i - 1) : books[j].id # id
         /\ getBookById(state, id) = books[i]
         /\ BookDetailsPage(state, id) = [view |-> "BookDetails", book |-> books[i]]

\* The SearchResultSet holds an identifier no Collection record has, and
\* two different Collection records share an identifier.
C21_Witness ==
  /\ SearchResultIds \ CollectionIds # {}
  /\ \E i, j \in 1..Len(books) :
       i < j /\ books[i].id = books[j].id /\ books[i] # books[j]

\* The operations that dispatch a write to the SearchResultSet.
WriteOps == SettleOps \cup {"clearSearch"}

\* C22: clearSearch does not cancel a search in flight.  The clear leaves
\* every call in flight and empties the SearchResultSet; the set then stays
\* as it is until the next write is dispatched; and when a call settles,
\* also one that was in flight across a clear, the set is that call's
\* outcome (one record on failure).  Each write thus takes effect when it
\* is dispatched, in dispatch order.
C22_ClearDoesNotCancel ==
  /\ [][(Performed /\ last'.op = "clearSearch") =>
          /\ calls' = calls
          /\ state'.searchResults = << >>]_vars
  /\ [][(Performed /\ last'.op \notin WriteOps) =>
          state'.searchResults = state.searchResults]_vars
  /\ [][(Performed /\ last'.op \in SettleOps) =>
          /\ IsOutcome(state'.searchResults, last'.query, last'.resp)
          /\ (last'.resp.kind # "ok" => state'.searchResults # << >>)
          /\ Len(calls') = Len(calls) - 1]_vars

\* A search started before a clear has just failed right after it: the
\* set, empty since the clear, now holds the fallback record of that search.
C22_Witness ==
  /\ last.op = "searchBooksCatch"
  /\ last.afterClear
  /\ last.replaced = 0
  /\ Len(searchResults) = 1
  /\ searchResults[1].title = "Search Result: " \o last.query

\* C23: a freshly created store holds exactly two Collection records, with
\* identifiers "1" and "2" in that order, both want-to-read, and an empty
\* SearchResultSet; getTotalCount() is 2 and getReadingProgress() is (0, 2).
C23_FreshStore ==
  last.op = "init" =>
    /\ Len(books) = 2
    /\ books[1].id = "1"
    /\ books[2].id = "2"
    /\ \A i \in 1..Len(books) : books[i].status = "want-to-read"
    /\ searchResults = << >>
    /\ getTotalBooks(state) = 2
    /\ getReadingProgress(state) = [completed |-> 0, total |-> 2]

\* The store as BookCollectionProvider has just created it, no operation
\* performed and no search in flight.
C23_Witness ==
  /\ last.op = "init"
  /\ steps = 0
  /\ calls = << >>
  /\ state = initialState

\* C24: in every reachable state isLoading is false, error is null, and the
\* stored lists currentlyReading, wantToRead and haveRead are empty.
C24_AuxiliaryFieldsFrozen ==
  /\ state.isLoading = FALSE
  /\ state.error = null
  /\ state.currentlyReading = << >>
  /\ state.wantToRead = << >>
  /\ state.haveRead = << >>

\* A search has just failed while another is in flight, and the Collection
\* has a record of each of two statuses other than the initial one.
C24_Witness ==
  /\ last.op = "searchBooksCatch"
  /\ calls # << >>
  /\ \E i \in 1..Len(books) : books[i].status = "currently-reading"
  /\ \E i \in 1..Len(books) : books[i].status = "have-read"

====
